---- MODULE Spec2Model ----
(***************************************************************************)
(* Model of the map marker subsystem of the tourism front-end:             *)
(*   - lib/utils/coordinate-converter.ts  (normalizeKatecCoordinates)      *)
(*   - lib/utils/marker-clusterer.ts      (createMarkerData,               *)
(*     clusterMarkers, class MarkerClusterer)                              *)
(*                                                                         *)
(* JavaScript numbers are modelled as exact rationals n/d in lowest terms  *)
(* (plus NaN and +-Infinity for parseFloat); floating-point rounding is    *)
(* not modelled.                                                           *)
(***************************************************************************)
EXTENDS Integers, Sequences, FiniteSets, Bags, TLC

VARIABLES
    nin, nout,          \* normalizeKatecCoordinates: arguments, outcome
    din, dout,          \* createMarkerData: argument, result
    cin, cout,          \* clusterMarkers: arguments, result
    map,                \* the naver.maps.Map the clusterer is bound to
    attached,           \* bag of SDK markers currently attached to the map
    markers,            \* MarkerClusterer.markers
    clusters,           \* MarkerClusterer.clusters
    clusterMarkerList,  \* MarkerClusterer.clusterMarkers
    individualMarkers,  \* MarkerClusterer.individualMarkers
    options,            \* MarkerClusterer.options
    updateTimeout,      \* MarkerClusterer.updateTimeout (0 models null)
    destroyed,          \* destroy() has run and the owner dropped the object
    timers,             \* pending window.setTimeout handles
    nextTimer,          \* next handle window.setTimeout will return
    fired,              \* handles of the timers whose callback has run
    destroyedPending,   \* handles that were pending when destroy() was called
    lastOp,             \* the public method that ran last, with its inputs
    loadPromise,        \* naver-map-loader: the module's loadPromise (0 models null)
    script,             \* the SDK script element: absent, loading, loaded, failed
    appended,           \* number of appendChild calls for the script element
    sdkReady,           \* window.naver.maps is loaded and initialised
    loads,              \* the doLoad() executions, in starting order
    calls,              \* the callers of loadNaverMaps
    hook,               \* useNaverMap: its state, refs and initializeMap runs
    view                \* NaverMapComponent: the tours prop and prevToursRef

normVars == <<nin, nout>>
dataVars == <<din, dout>>
fnVars == <<cin, cout>>
clVars == <<map, attached, markers, clusters, clusterMarkerList,
            individualMarkers, options, updateTimeout, destroyed, timers,
            nextTimer, fired, destroyedPending, lastOp>>
loaderVars == <<loadPromise, script, appended, sdkReady, loads, calls>>
hookVars == <<hook, view>>
vars == <<normVars, dataVars, fnVars, clVars, loaderVars, hookVars>>

\* A call that has not returned yet.
Pending == [pending |-> TRUE]

----------------------------------------------------------------------------
(* Sequences *)

SeqsUpTo(S, k) == UNION {[1..n -> S] : n \in 0..k}
Range(f) == {f[i] : i \in DOMAIN f}
Count(seq, v) == Cardinality({i \in DOMAIN seq : seq[i] = v})

----------------------------------------------------------------------------
(* Numbers *)

Abs(x) == IF x < 0 THEN -x ELSE x

RECURSIVE GCD(_, _)
GCD(a, b) == IF b = 0 THEN a ELSE GCD(b, a % b)

\* The rational n/d (d > 0) in lowest terms.
Rat(n, d) ==
    LET g == GCD(Abs(n), d)
    IN  [n |-> n \div g, d |-> d \div g]

RatOfInt(i) == [n |-> i, d |-> 1]

RatAdd(a, b) ==
    LET l == (a.d \div GCD(a.d, b.d)) * b.d
    IN  Rat(a.n * (l \div a.d) + b.n * (l \div b.d), l)

RatSub(a, b) == RatAdd(a, [n |-> -b.n, d |-> b.d])

RatDivInt(a, k) ==
    LET g == GCD(Abs(a.n), k)
    IN  [n |-> a.n \div g, d |-> a.d * (k \div g)]

RatMulInt(a, k) ==
    LET g == GCD(k, a.d)
    IN  [n |-> a.n * (k \div g), d |-> a.d \div g]

RatAbs(a) == [n |-> Abs(a.n), d |-> a.d]

\* a < k for an integer k
RatLessInt(a, k) == a.n < k * a.d

\* a < b, comparing the integer parts first so that the cross products of
\* the fractional parts stay small.
RatLess(a, b) ==
    \/ a.n \div a.d < b.n \div b.d
    \/ /\ a.n \div a.d = b.n \div b.d
       /\ (a.n % a.d) * b.d < (b.n % b.d) * a.d

RatMin(a, b) == IF RatLess(b, a) THEN b ELSE a
RatMax(a, b) == IF RatLess(a, b) THEN b ELSE a

RECURSIVE Pow10(_)
Pow10(k) == IF k = 0 THEN 1 ELSE 10 * Pow10(k - 1)

----------------------------------------------------------------------------
(* Strings and parseFloat *)

\* The coordinate strings the model draws its inputs from.
CoordStrings ==
    {
      "", "1290000000", "350000000", "1290000010", "127.12", "36.45",
      "-1290000000", "-350000000", "999", "1000", "0", "abc", "12abc",
      "Infinity", "-Infinity", " 35", ".5", "-" }

\* The characters of a string, as a sequence of one-character strings.
Chars(s) ==
    CASE s = "" -> <<>>
      [] s = "1290000000" -> <<"1", "2", "9", "0", "0", "0", "0", "0", "0", "0">>
      [] s = "350000000" -> <<"3", "5", "0", "0", "0", "0", "0", "0", "0">>
      [] s = "1290000010" -> <<"1", "2", "9", "0", "0", "0", "0", "0", "1", "0">>
      [] s = "127.12" -> <<"1", "2", "7", ".", "1", "2">>
      [] s = "36.45" -> <<"3", "6", ".", "4", "5">>
      [] s = "-1290000000" -> <<"-", "1", "2", "9", "0", "0", "0", "0", "0", "0", "0">>
      [] s = "-350000000" -> <<"-", "3", "5", "0", "0", "0", "0", "0", "0", "0">>
      [] s = "999" -> <<"9", "9", "9">>
      [] s = "1000" -> <<"1", "0", "0", "0">>
      [] s = "0" -> <<"0">>
      [] s = "abc" -> <<"a", "b", "c">>
      [] s = "12abc" -> <<"1", "2", "a", "b", "c">>
      [] s = "Infinity" -> <<"I", "n", "f", "i", "n", "i", "t", "y">>
      [] s = "-Infinity" -> <<"-", "I", "n", "f", "i", "n", "i", "t", "y">>
      [] s = " 35" -> <<" ", "3", "5">>
      [] s = ".5" -> <<".", "5">>
      [] s = "-" -> <<"-">>

Digits == {"0", "1", "2", "3", "4", "5", "6", "7", "8", "9"}

DigitVal(c) ==
    CASE c = "0" -> 0 [] c = "1" -> 1 [] c = "2" -> 2 [] c = "3" -> 3
      [] c = "4" -> 4 [] c = "5" -> 5 [] c = "6" -> 6 [] c = "7" -> 7
      [] c = "8" -> 8 [] c = "9" -> 9

\* Index of the first character at or after i that is not white space.
RECURSIVE SkipWhiteSpace(_, _)
SkipWhiteSpace(cs, i) ==
    IF i <= Len(cs) /\ cs[i] = " " THEN SkipWhiteSpace(cs, i + 1) ELSE i

\* Number of consecutive decimal digits of cs starting at index i.
RECURSIVE DigitRun(_, _)
DigitRun(cs, i) ==
    IF i <= Len(cs) /\ cs[i] \in Digits THEN 1 + DigitRun(cs, i + 1) ELSE 0

\* The value of the k decimal digits of cs that start at index i.
RECURSIVE DigitsValue(_, _, _)
DigitsValue(cs, i, k) ==
    IF k = 0 THEN 0
    ELSE 10 * DigitsValue(cs, i, k - 1) + DigitVal(cs[i + k - 1])

InfinityLit == <<"I", "n", "f", "i", "n", "i", "t", "y">>

StartsWith(cs, i, lit) ==
    /\ i + Len(lit) - 1 <= Len(cs)
    /\ SubSeq(cs, i, i + Len(lit) - 1) = lit

NaN == [kind |-> "NaN"]
Inf(neg) == [kind |-> "Infinity", neg |-> neg]
Num(neg, r) == [kind |-> "num", n |-> IF neg THEN -r.n ELSE r.n, d |-> r.d]

\* n1 integer digits at index b, then n2 fraction digits after the dot.
DecimalValue(cs, b, neg, n1, n2) ==
    IF n1 = 0 /\ n2 = 0 THEN NaN
    ELSE Num(neg, Rat(DigitsValue(cs, b, n1) * Pow10(n2)
                          + DigitsValue(cs, b + n1 + 1, n2),
                      Pow10(n2)))

DecimalLiteral(cs, b, neg, n1) ==
    DecimalValue(cs, b, neg, n1,
                 IF b + n1 <= Len(cs) /\ cs[b + n1] = "."
                 THEN DigitRun(cs, b + n1 + 1) ELSE 0)

\* The literal that starts at index b, after the optional sign.
UnsignedLiteral(cs, b, neg) ==
    IF StartsWith(cs, b, InfinityLit) THEN Inf(neg)
    ELSE DecimalLiteral(cs, b, neg, DigitRun(cs, b))

SignedLiteral(cs, a) ==
    UnsignedLiteral(cs,
                    IF a <= Len(cs) /\ cs[a] \in {"-", "+"} THEN a + 1 ELSE a,
                    a <= Len(cs) /\ cs[a] = "-")

\* ECMAScript parseFloat on strings without an exponent part: leading white
\* space is skipped and the longest prefix that is a StrDecimalLiteral is
\* converted; trailing characters are ignored; no such prefix yields NaN.
parseFloat(s) == SignedLiteral(Chars(s), SkipWhiteSpace(Chars(s), 1))

isNaN(v) == v.kind = "NaN"
isFinite(v) == v.kind = "num"

----------------------------------------------------------------------------
(* coordinate-converter.ts *)

DecimalThreshold == 1000
KatecScale == 10000000

Thrown == [ok |-> FALSE]
Returned(lat, lng) == [ok |-> TRUE, lat |-> lat, lng |-> lng]

\* `!s` on a string: only the empty string is falsy.
Falsy(s) == s = ""

RatOf(v) == [n |-> v.n, d |-> v.d]

\* Variant: the axes transposed in the result (lat from x, lng from y).
ScaleCoordinates_transposed(x, y, isAlreadyDecimal) ==
    Returned(IF isAlreadyDecimal THEN RatOf(x) ELSE RatDivInt(RatOf(x), KatecScale),
             IF isAlreadyDecimal THEN RatOf(y) ELSE RatDivInt(RatOf(y), KatecScale))

\* katecX, katecY and the returned { lat: katecY, lng: katecX }.
ScaleCoordinates(x, y, isAlreadyDecimal) ==
    Returned(IF isAlreadyDecimal THEN RatOf(y) ELSE RatDivInt(RatOf(y), KatecScale),
             IF isAlreadyDecimal THEN RatOf(x) ELSE RatDivInt(RatOf(x), KatecScale))

\* Variant: only NaN is rejected, the isFinite test is left out.
NormalizeParsed_noFiniteCheck(x, y) ==
    IF isNaN(x) \/ isNaN(y) THEN Thrown
    ELSE IF ~isFinite(x) \/ ~isFinite(y) THEN Returned(y, x)
    ELSE ScaleCoordinates(x, y,
                          /\ RatLessInt(x, DecimalThreshold)
                          /\ RatLessInt(y, DecimalThreshold))

\* The validity check and the isAlreadyDecimal branch on the parsed x and y.
NormalizeParsed(x, y) ==
    IF isNaN(x) \/ isNaN(y) \/ ~isFinite(x) \/ ~isFinite(y) THEN Thrown
    ELSE ScaleCoordinates(x, y,
                          /\ RatLessInt(x, DecimalThreshold)
                          /\ RatLessInt(y, DecimalThreshold))

\* Returns Thrown where the code throws, Returned(lat, lng) where it returns.
normalizeKatecCoordinates(mapx, mapy) ==
    IF Falsy(mapx) \/ Falsy(mapy) THEN Thrown
    ELSE NormalizeParsed(parseFloat(mapx), parseFloat(mapy))

convertTourCoordinates(mapx, mapy) == normalizeKatecCoordinates(mapx, mapy)

----------------------------------------------------------------------------
(* marker-clusterer.ts: pure functions *)

DefaultMinDistance == 60
DefaultMinZoom == 10
FallbackScale == 100000

\* `tour.mapx && tour.mapy`: the field is there and is not the empty string.
HasCoord(tour, f) == f \in DOMAIN tour /\ ~Falsy(tour[f])

MarkerData(tour, position) == [tour |-> tour, position |-> position]

NullMarker == [null |-> TRUE]

\* The map callback: the marker for a tour whose conversion returned r,
\* null where the conversion threw.
ConvertedMarker(tour, r) ==
    IF r.ok THEN MarkerData(tour, [lat |-> r.lat, lng |-> r.lng]) ELSE NullMarker

WithCoords(tours) ==
    SelectSeq(tours, LAMBDA t : HasCoord(t, "mapx") /\ HasCoord(t, "mapy"))

ConvertAll(withCoords) ==
    [i \in 1..Len(withCoords) |->
        ConvertedMarker(withCoords[i],
                        convertTourCoordinates(withCoords[i].mapx,
                                               withCoords[i].mapy))]

\* Variant: no try/catch around the conversion, so the first record that
\* fails to convert aborts the whole call and no point is produced.
createMarkerData_noCatch(tours) ==
    IF NullMarker \in Range(ConvertAll(WithCoords(tours))) THEN <<>>
    ELSE ConvertAll(WithCoords(tours))

\* tours.filter(..).map(try convert / catch -> null).filter(non-null)
createMarkerData(tours) ==
    SelectSeq(ConvertAll(WithCoords(tours)), LAMBDA md : md # NullMarker)

\* A distance is either the square root of an integer (the Euclidean pixel
\* distance) or a rational (the degree-difference fallback).
Euclidean(sq) == [root |-> TRUE, of |-> sq]
Linear(r) == [root |-> FALSE, val |-> r]

\* A variant of the fallback that leaves the degree difference unscaled.
FallbackDistance_unscaled(pos1, pos2) ==
    Linear(RatAdd(RatAbs(RatSub(pos1.lat, pos2.lat)),
                  RatAbs(RatSub(pos1.lng, pos2.lng))))

FallbackDistance(pos1, pos2) ==
    LET latDiff == RatAbs(RatSub(pos1.lat, pos2.lat))
        lngDiff == RatAbs(RatSub(pos1.lng, pos2.lng))
    IN  Linear(RatMulInt(RatAdd(latDiff, lngDiff), FallbackScale))

\* Math.sqrt(dx * dx + dy * dy) of two projected points.
OffsetDistance(point1, point2) ==
    Euclidean((point1.x - point2.x) * (point1.x - point2.x)
                  + (point1.y - point2.y) * (point1.y - point2.y))

\* The projection is null (first branch) or projecting throws (the catch
\* block): both return the degree-difference fallback.
getPixelDistance(pos1, pos2, m) ==
    IF m.proj.kind \in {"null", "throws"} THEN FallbackDistance(pos1, pos2)
    ELSE OffsetDistance(m.proj.at[pos1], m.proj.at[pos2])

\* Variant: `distance <= minDistance`.
DistanceBelow_inclusive(distance, minDistance) ==
    IF distance.root
    THEN minDistance >= 0 /\ distance.of <= minDistance * minDistance
    ELSE distance.val.n <= minDistance * distance.val.d

\* `distance < minDistance`; sqrt(v) < k iff k > 0 and v < k * k.
DistanceBelow(distance, minDistance) ==
    IF distance.root
    THEN minDistance > 0 /\ distance.of < minDistance * minDistance
    ELSE RatLessInt(distance.val, minDistance)

\* One step of the reduce: the accumulator plus a marker's position.
AddPosition(acc, md) ==
    [lat |-> RatAdd(acc.lat, md.position.lat),
     lng |-> RatAdd(acc.lng, md.position.lng)]

\* markers.reduce(...) over the first k markers.
RECURSIVE SumPositions(_, _)
SumPositions(ms, k) ==
    IF k = 0 THEN [lat |-> RatOfInt(0), lng |-> RatOfInt(0)]
    ELSE AddPosition(SumPositions(ms, k - 1), ms[k])

\* Variant: the centre is the seed's position instead of the mean.
getClusterCenter_seed(ms) ==
    IF Len(ms) = 0 THEN [lat |-> RatOfInt(0), lng |-> RatOfInt(0)]
    ELSE ms[1].position

\* sum / markers.length, per axis.
MeanOf(sum, k) == [lat |-> RatDivInt(sum.lat, k), lng |-> RatDivInt(sum.lng, k)]

getClusterCenter(ms) ==
    IF Len(ms) = 0 THEN [lat |-> RatOfInt(0), lng |-> RatOfInt(0)]
    ELSE MeanOf(SumPositions(ms, Len(ms)), Len(ms))

ClusterData(position, ms) == [position |-> position, markers |-> ms]

\* Variant: a folded candidate is not recorded as processed.
RECURSIVE ScanCandidates_unmarked(_, _, _, _, _, _, _)
ScanCandidates_unmarked(ms, m, minDistance, i, j, cluster, processed) ==
    IF j > Len(ms) THEN [cluster |-> cluster, processed |-> processed]
    ELSE IF j \in processed
    THEN ScanCandidates_unmarked(ms, m, minDistance, i, j + 1, cluster, processed)
    ELSE IF DistanceBelow(getPixelDistance(ms[i].position, ms[j].position, m),
                          minDistance)
    THEN ScanCandidates_unmarked(ms, m, minDistance, i, j + 1,
                                 Append(cluster, ms[j]), processed)
    ELSE ScanCandidates_unmarked(ms, m, minDistance, i, j + 1, cluster, processed)

\* Variant: a candidate is compared with the member added last, not the seed.
RECURSIVE ScanCandidates_chained(_, _, _, _, _, _, _)
ScanCandidates_chained(ms, m, minDistance, i, j, cluster, processed) ==
    IF j > Len(ms) THEN [cluster |-> cluster, processed |-> processed]
    ELSE IF j \in processed
    THEN ScanCandidates_chained(ms, m, minDistance, i, j + 1, cluster, processed)
    ELSE IF DistanceBelow(getPixelDistance(cluster[Len(cluster)].position,
                                           ms[j].position, m),
                          minDistance)
    THEN ScanCandidates_chained(ms, m, minDistance, i, j + 1,
                                Append(cluster, ms[j]), processed \cup {j})
    ELSE ScanCandidates_chained(ms, m, minDistance, i, j + 1, cluster, processed)

\* The inner loop `for (j = i + 1; ...)` from index j on: the members of the
\* cluster seeded by ms[i] and the processed set.
RECURSIVE ScanCandidates(_, _, _, _, _, _, _)
ScanCandidates(ms, m, minDistance, i, j, cluster, processed) ==
    IF j > Len(ms) THEN [cluster |-> cluster, processed |-> processed]
    ELSE IF j \in processed
    THEN ScanCandidates(ms, m, minDistance, i, j + 1, cluster, processed)
    ELSE IF DistanceBelow(getPixelDistance(ms[i].position, ms[j].position, m),
                          minDistance)
    THEN ScanCandidates(ms, m, minDistance, i, j + 1,
                        Append(cluster, ms[j]), processed \cup {j})
    ELSE ScanCandidates(ms, m, minDistance, i, j + 1, cluster, processed)

\* The cluster the inner loop result r closes: its centre and its members.
ClosedCluster(r) == ClusterData(getClusterCenter(r.cluster), r.cluster)

\* The outer loop `for (i = 0; ...)` from index i on.
RECURSIVE ScanSeeds(_, _, _, _, _, _), SeedScanned(_, _, _, _, _, _)
ScanSeeds(ms, m, minDistance, i, acc, processed) ==
    IF i > Len(ms) THEN acc
    ELSE IF i \in processed
    THEN ScanSeeds(ms, m, minDistance, i + 1, acc, processed)
    ELSE SeedScanned(ms, m, minDistance, i, acc,
                     ScanCandidates(ms, m, minDistance, i, i + 1,
                                    <<ms[i]>>, processed \cup {i}))

\* The rest of the outer loop body once the inner loop for seed i returned r.
SeedScanned(ms, m, minDistance, i, acc, r) ==
    ScanSeeds(ms, m, minDistance, i + 1, Append(acc, ClosedCluster(r)),
              r.processed)

OptionOr(opts, f, default) == IF f \in DOMAIN opts THEN opts[f] ELSE default

\* Variant: `currentZoom <= minZoom` disables grouping.
clusterMarkers_zoomInclusive(ms, m, opts) ==
    IF m.zoom <= OptionOr(opts, "minZoom", DefaultMinZoom)
    THEN [i \in 1..Len(ms) |-> ClusterData(ms[i].position, <<ms[i]>>)]
    ELSE ScanSeeds(ms, m, OptionOr(opts, "minDistance", DefaultMinDistance),
                   1, <<>>, {})

clusterMarkers(ms, m, opts) ==
    IF m.zoom < OptionOr(opts, "minZoom", DefaultMinZoom)
    THEN [i \in 1..Len(ms) |-> ClusterData(ms[i].position, <<ms[i]>>)]
    ELSE ScanSeeds(ms, m, OptionOr(opts, "minDistance", DefaultMinDistance),
                   1, <<>>, {})

----------------------------------------------------------------------------
(* Sample tours, markers and viewports *)

MaxTours == 3
MaxMarkers == 3

T1 == [contentid |-> "1", mapx |-> "1290000000", mapy |-> "350000000"]
T2 == [contentid |-> "2", mapx |-> "127.12", mapy |-> "36.45"]
T3 == [contentid |-> "3", mapx |-> "1290000010", mapy |-> "350000000"]
NoMapx == [contentid |-> "4", mapy |-> "350000000"]
BadMapx == [contentid |-> "5", mapx |-> "abc", mapy |-> "350000000"]
EmptyMapy == [contentid |-> "6", mapx |-> "1290000000", mapy |-> ""]
InfMapy == [contentid |-> "7", mapx |-> "1290000000", mapy |-> "Infinity"]

ValidTours == {T1, T2, T3}
BadTours == {NoMapx, BadMapx, EmptyMapy, InfMapy}
SampleTours == ValidTours \cup BadTours


SampleMarkers == Range(createMarkerData(<<T1, T2, T3>>))
SamplePositions == {md.position : md \in SampleMarkers}

Pixels ==
    { [x |-> 0, y |-> 0], [x |-> 10, y |-> 0], [x |-> 36, y |-> 48],
      [x |-> 500, y |-> 0] }

NullProjection == [kind |-> "null"]
ThrowingProjection == [kind |-> "throws"]
Projection(f) == [kind |-> "ok", at |-> f]

Projections ==
    {NullProjection, ThrowingProjection}
        \cup {Projection(f) : f \in [SamplePositions -> Pixels]}

Zooms == {9, 10, 11}

NoOptions == [f \in {} |-> 0]
OptionSamples ==
    { NoOptions, [minDistance |-> 10, minZoom |-> 11], [minDistance |-> 55] }

----------------------------------------------------------------------------
(* Specifications of the pure functions *)

IdleNormalize == nin = Pending /\ nout = Pending
IdleData == din = <<>> /\ dout = Pending
IdleCluster == cin = Pending /\ cout = Pending
\* naver-map-loader as the module is loaded: nothing requested yet.
IdleLoader ==
    /\ loadPromise = 0
    /\ script = "absent"
    /\ appended = 0
    /\ sdkReady = FALSE
    /\ loads = <<>>
    /\ calls = <<>>

\* No NaverMapComponent is rendered.
IdleHook == hook = Pending /\ view = Pending

IdleClusterer ==
    /\ map = Pending
    /\ attached = EmptyBag
    /\ markers = <<>>
    /\ clusters = <<>>
    /\ clusterMarkerList = <<>>
    /\ individualMarkers = <<>>
    /\ options = Pending
    /\ updateTimeout = 0
    /\ destroyed = FALSE
    /\ timers = {}
    /\ nextTimer = 1
    /\ fired = {}
    /\ destroyedPending = {}
    /\ lastOp = Pending

InitNormalize ==
    /\ nin \in [mapx : CoordStrings, mapy : CoordStrings]
    /\ nout = Pending
    /\ IdleData /\ IdleCluster /\ IdleClusterer /\ IdleLoader /\ IdleHook

CallNormalize ==
    /\ nin # Pending /\ nout = Pending
    /\ nout' = normalizeKatecCoordinates(nin.mapx, nin.mapy)
    /\ UNCHANGED <<nin, dataVars, fnVars, clVars, loaderVars, hookVars>>

SpecNormalize == InitNormalize /\ [][CallNormalize]_vars

InitData ==
    /\ din \in SeqsUpTo(SampleTours, MaxTours)
    /\ dout = Pending
    /\ IdleNormalize /\ IdleCluster /\ IdleClusterer /\ IdleLoader /\ IdleHook

CallCreateMarkerData ==
    /\ dout = Pending
    /\ dout' = [markers |-> createMarkerData(din)]
    /\ UNCHANGED <<din, normVars, fnVars, clVars, loaderVars, hookVars>>

SpecData == InitData /\ [][CallCreateMarkerData]_vars

InitCluster ==
    /\ cin \in [markers : SeqsUpTo(SampleMarkers, MaxMarkers),
                map : [zoom : Zooms, proj : Projections],
                options : OptionSamples]
    /\ cout = Pending
    /\ IdleNormalize /\ IdleData /\ IdleClusterer /\ IdleLoader /\ IdleHook

CallClusterMarkers ==
    /\ cin # Pending /\ cout = Pending
    /\ cout' = [clusters |-> clusterMarkers(cin.markers, cin.map, cin.options)]
    /\ UNCHANGED <<cin, normVars, dataVars, clVars, loaderVars, hookVars>>

SpecCluster == InitCluster /\ [][CallClusterMarkers]_vars

\* The orderings of the three sample points.
Orderings ==
    {ms \in [1..3 -> SampleMarkers] : Cardinality(Range(ms)) = 3}

\* The list ms with its first two points exchanged.
Exchanged(ms) == <<ms[2], ms[1]>> \o SubSeq(ms, 3, Len(ms))

InitReorder ==
    /\ cin \in [markers : Orderings,
                map : [zoom : Zooms, proj : Projections],
                options : OptionSamples]
    /\ cout = Pending
    /\ IdleNormalize /\ IdleData /\ IdleClusterer /\ IdleLoader /\ IdleHook

\* clusterMarkers on a list and on the same points in another order, with
\* the same map and options.
CallBothOrders ==
    /\ cin # Pending /\ cout = Pending
    /\ cout' = [clusters |-> clusterMarkers(cin.markers, cin.map, cin.options),
                exchanged |-> clusterMarkers(Exchanged(cin.markers), cin.map,
                                             cin.options)]
    /\ UNCHANGED <<cin, normVars, dataVars, clVars, loaderVars, hookVars>>

SpecReorder == InitReorder /\ [][CallBothOrders]_vars

----------------------------------------------------------------------------
(* class MarkerClusterer *)

MaxManaged == 3
MaxTimers == 3

\* The arguments addMarkers is called with.
TourLists ==
    { <<>>, <<BadMapx, T1>>, <<T2, NoMapx, T3>> }

PositionOf(tour) == createMarkerData(<<tour>>)[1].position

\* T1 and T3 10px apart, T2 500px away.
LayoutSpread ==
    [p \in SamplePositions |->
        IF p = PositionOf(T1) THEN [x |-> 0, y |-> 0]
        ELSE IF p = PositionOf(T3) THEN [x |-> 10, y |-> 0]
        ELSE [x |-> 500, y |-> 0]]

\* T1-T2 10px, T2-T3 under 60px, T1-T3 exactly 60px.
LayoutChain ==
    [p \in SamplePositions |->
        IF p = PositionOf(T1) THEN [x |-> 0, y |-> 0]
        ELSE IF p = PositionOf(T2) THEN [x |-> 10, y |-> 0]
        ELSE [x |-> 36, y |-> 48]]

ViewProjections ==
    {NullProjection, Projection(LayoutSpread), Projection(LayoutChain)}
ViewZooms == {9, 10}
ViewportEvents == {"zoom_changed", "dragend"}

DetailZoom == 15

\* The ids moveToMarker is called with: two tours with valid coordinates and
\* one whose coordinates never convert.
ContentIds == {T1.contentid, T2.contentid, BadMapx.contentid}

CtorOptionSamples == {NoOptions, [minDistance |-> 55, minZoom |-> 9]}

\* `opts.f || default`: an absent field and 0 both give the default.
OptionOrDefault(opts, f, default) ==
    IF f \in DOMAIN opts /\ opts[f] # 0 THEN opts[f] ELSE default

SeqToBag(seq) == [v \in Range(seq) |-> Count(seq, v)]

\* The SDK marker createClusterMarker makes for a cluster.
createClusterMarker(cluster) ==
    [kind |-> "cluster", position |-> cluster.position,
     count |-> Len(cluster.markers), members |-> cluster.markers]

FitPadding == 50

\* new naver.maps.LatLngBounds(sw, ne)
LatLngBounds(sw, ne) == [sw |-> sw, ne |-> ne]

\* bounds.extend(pos): the smallest box holding bounds and pos.
Extend(bounds, pos) ==
    LatLngBounds(
        [lat |-> RatMin(bounds.sw.lat, pos.lat), lng |-> RatMin(bounds.sw.lng, pos.lng)],
        [lat |-> RatMax(bounds.ne.lat, pos.lat), lng |-> RatMax(bounds.ne.lng, pos.lng)])

\* A variant of the click handler's loop that keeps the box of the first
\* member.
ExtendAll_firstOnly(bounds, ms, k) == bounds

RECURSIVE ExtendAll(_, _, _)
\* The click handler's forEach: bounds extended by the first k members.
ExtendAll(bounds, ms, k) ==
    IF k = 0 THEN bounds
    ELSE Extend(ExtendAll(bounds, ms, k - 1), ms[k].position)

FitBounds(bounds) ==
    [cmd |-> "fitBounds", bounds |-> bounds,
     padding |-> [top |-> FitPadding, right |-> FitPadding,
                  bottom |-> FitPadding, left |-> FitPadding]]

\* The click listener of the aggregate marker mk: the commands it sends to
\* the map.
ClickHandler(mk) ==
    IF Len(mk.members) = 0 THEN <<>>
    ELSE <<FitBounds(
             ExtendAll(LatLngBounds(mk.members[1].position, mk.members[1].position),
                       mk.members, Len(mk.members)))>>

\* The SDK marker createMarker makes for a point.
createMarker(md) == [kind |-> "marker", position |-> md.position]

\* A variant of the forEach body that wraps every cluster in an aggregate.
RenderCluster_alwaysAggregate(acc, c) ==
    [acc EXCEPT !.cluster = Append(@, createClusterMarker(c))]

\* The forEach body of update(): the marker lists after cluster c was rendered.
RenderCluster(acc, c) ==
    IF Len(c.markers) > 1
    THEN [acc EXCEPT !.cluster = Append(@, createClusterMarker(c))]
    ELSE [acc EXCEPT !.individual = Append(@, createMarker(c.markers[1]))]

\* The markers update() creates for the first k clusters, in creation order.
RECURSIVE RenderClusters(_, _)
RenderClusters(cs, k) ==
    IF k = 0 THEN [cluster |-> <<>>, individual |-> <<>>]
    ELSE RenderCluster(RenderClusters(cs, k - 1), cs[k])

\* A variant of update() and clearMarkers() that leaves the old markers on
\* the map.
Detached_none(st) == st.attached

\* setMap(null) on every rendered marker of st.
Detached(st) ==
    (st.attached (-) SeqToBag(st.clusterMarkerList))
        (-) SeqToBag(st.individualMarkers)

\* The state after update() stored the clusters cs and rendered them as made.
Rendered(st, cs, made) ==
    [st EXCEPT !.clusters = cs,
               !.clusterMarkerList = made.cluster,
               !.individualMarkers = made.individual,
               !.attached = (Detached(st) (+) SeqToBag(made.cluster))
                                (+) SeqToBag(made.individual)]

Clustered(st, cs) == Rendered(st, cs, RenderClusters(cs, Len(cs)))

\* update() on the clusterer state st (a record of the fields it reads and
\* writes): detach what was rendered, re-cluster st.markers, render.
UpdateOf(st) ==
    IF Len(st.markers) = 0
    THEN [st EXCEPT !.attached = Detached(st),
                    !.clusterMarkerList = <<>>,
                    !.individualMarkers = <<>>]
    ELSE Clustered(st, clusterMarkers(st.markers, st.map, st.options))

\* A variant of addMarkers that keeps only the new points.
AppendMarkers_replace(ms, tours) == createMarkerData(tours)

\* A variant of findMarker that ignores the id.
FirstMatch_any(ms, contentId, k) ==
    IF Len(ms) = 0 THEN NullMarker ELSE ms[1]

RECURSIVE FirstMatch_last(_, _, _)
\* A variant of findMarker that returns the last marker with the id.
FirstMatch_last(ms, contentId, k) ==
    IF k > Len(ms) THEN NullMarker
    ELSE IF FirstMatch_last(ms, contentId, k + 1) # NullMarker
    THEN FirstMatch_last(ms, contentId, k + 1)
    ELSE IF ms[k].tour.contentid = contentId THEN ms[k]
    ELSE NullMarker

RECURSIVE FirstMatch(_, _, _)
\* Array.prototype.find from index k on: the first marker whose tour has the
\* id, or null.
FirstMatch(ms, contentId, k) ==
    IF k > Len(ms) THEN NullMarker
    ELSE IF ms[k].tour.contentid = contentId THEN ms[k]
    ELSE FirstMatch(ms, contentId, k + 1)

\* findMarker(contentId)
findMarker(ms, contentId) == FirstMatch(ms, contentId, 1)

SetCenter(position) == [cmd |-> "setCenter", position |-> position]
SetZoom(zoom) == [cmd |-> "setZoom", zoom |-> zoom]

\* The commands moveToMarker sends to the map for what findMarker returned.
MoveCommands(marker) ==
    IF marker # NullMarker
    THEN <<SetCenter(marker.position), SetZoom(DetailZoom)>>
    ELSE <<>>

\* this.markers = [...this.markers, ...newMarkers]
AppendMarkers(ms, tours) == ms \o createMarkerData(tours)

\* A variant of addMarkers that does not call update().
AddMarkersOf_stale(st, tours) ==
    [st EXCEPT !.markers = AppendMarkers(st.markers, tours)]

\* addMarkers(tours) on the clusterer state st.
AddMarkersOf(st, tours) ==
    UpdateOf([st EXCEPT !.markers = AppendMarkers(st.markers, tours)])

\* A variant of clearMarkers() that leaves the rendered markers to the next
\* update().
ClearMarkersOf_lazy(st) == [st EXCEPT !.markers = <<>>, !.clusters = <<>>]

\* A variant of clearMarkers() that forgets the individual markers.
ClearMarkersOf_clustersOnly(st) ==
    [st EXCEPT !.attached = st.attached (-) SeqToBag(st.clusterMarkerList),
               !.markers = <<>>,
               !.clusters = <<>>,
               !.clusterMarkerList = <<>>,
               !.individualMarkers = <<>>]

\* clearMarkers() on the clusterer state st.
ClearMarkersOf(st) ==
    [st EXCEPT !.attached = Detached(st),
               !.markers = <<>>,
               !.clusters = <<>>,
               !.clusterMarkerList = <<>>,
               !.individualMarkers = <<>>]

Self ==
    [map |-> map, options |-> options, attached |-> attached,
     markers |-> markers, clusters |-> clusters,
     clusterMarkerList |-> clusterMarkerList,
     individualMarkers |-> individualMarkers]

\* The clusterer's fields after a method left it in state st.
Becomes(st) ==
    /\ attached' = st.attached
    /\ markers' = st.markers
    /\ clusters' = st.clusters
    /\ clusterMarkerList' = st.clusterMarkerList
    /\ individualMarkers' = st.individualMarkers

\* The variables no method of the clusterer touches.
pureVars == <<normVars, dataVars, fnVars, loaderVars, hookVars>>
ghostVars == <<fired, destroyedPending>>

\* A variant in which clearTimeout misses the timer.
clearTimeout_missed(pending, handle) == pending

\* clearTimeout(handle): the pending timers afterwards.
clearTimeout(pending, handle) == pending \ {handle}

\* A variant of debouncedUpdate() that leaves the previous timer running.
PendingAfterDebounce_keep(pending, handle) == pending

\* if (this.updateTimeout) clearTimeout(this.updateTimeout), in debouncedUpdate()
PendingAfterDebounce(pending, handle) ==
    IF handle # 0 THEN clearTimeout(pending, handle) ELSE pending

\* A variant of destroy() that leaves the timer running.
PendingAfterDestroy_keep(pending, handle) == pending

\* if (this.updateTimeout) clearTimeout(this.updateTimeout), in destroy()
PendingAfterDestroy(pending, handle) ==
    IF handle # 0 THEN clearTimeout(pending, handle) ELSE pending

\* this.options as the constructor fills it from its argument.
ResolvedOptions(ctorOptions) ==
    [minDistance |-> OptionOrDefault(ctorOptions, "minDistance", DefaultMinDistance),
     minZoom |-> OptionOrDefault(ctorOptions, "minZoom", DefaultMinZoom)]

\* new MarkerClusterer(map, ctorOptions), with ctorOptions one of samples:
\* the fields' initial values and the two listeners registered on the map.
Constructed(samples) ==
    /\ IdleNormalize /\ IdleData /\ IdleCluster /\ IdleLoader /\ IdleHook
    /\ \E z \in ViewZooms, pr \in ViewProjections :
          map = [zoom |-> z, proj |-> pr, listeners |-> ViewportEvents]
    /\ \E ctorOptions \in samples :
          /\ options = ResolvedOptions(ctorOptions)
          /\ lastOp = [op |-> "constructor", options |-> ctorOptions]
    /\ attached = EmptyBag
    /\ markers = <<>>
    /\ clusters = <<>>
    /\ clusterMarkerList = <<>>
    /\ individualMarkers = <<>>
    /\ updateTimeout = 0
    /\ destroyed = FALSE
    /\ timers = {}
    /\ nextTimer = 1
    /\ fired = {}
    /\ destroyedPending = {}

Init == Constructed(CtorOptionSamples)

\* addMarkers(tours) with tours one of lists.
AddMarkersFrom(lists) ==
    \E tours \in lists :
        /\ ~destroyed
        /\ Len(AppendMarkers(markers, tours)) <= MaxManaged
        /\ Becomes(AddMarkersOf(Self, tours))
        /\ lastOp' = [op |-> "addMarkers", tours |-> tours, before |-> markers]
        /\ UNCHANGED <<map, options, updateTimeout, destroyed, timers,
                       nextTimer, pureVars, ghostVars>>

AddMarkers == AddMarkersFrom(TourLists)

ClearMarkers ==
    /\ ~destroyed
    /\ Becomes(ClearMarkersOf(Self))
    /\ lastOp' = [op |-> "clearMarkers", rendered |-> BagCardinality(attached)]
    /\ UNCHANGED <<map, options, updateTimeout, destroyed, timers, nextTimer,
                   pureVars, ghostVars>>

Update ==
    /\ ~destroyed
    /\ Becomes(UpdateOf(Self))
    /\ lastOp' = [op |-> "update", rendered |-> BagCardinality(attached)]
    /\ UNCHANGED <<map, options, updateTimeout, destroyed, timers, nextTimer,
                   pureVars, ghostVars>>

\* debouncedUpdate(): cancel the pending timer, schedule update() in 100ms.
DebouncedUpdate ==
    /\ timers' = PendingAfterDebounce(timers, updateTimeout) \cup {nextTimer}
    /\ updateTimeout' = nextTimer
    /\ nextTimer' = nextTimer + 1

\* The SDK changes the viewport and dispatches zoom_changed or dragend; a
\* listener registered for it runs debouncedUpdate().
ViewportEvent ==
    \E ev \in ViewportEvents, z \in ViewZooms \cup {map.zoom},
       pr \in ViewProjections :
        /\ nextTimer <= MaxTimers
        /\ IF ev = "zoom_changed" THEN z # map.zoom ELSE z = map.zoom
        /\ map' = [map EXCEPT !.zoom = z, !.proj = pr]
        /\ IF ev \in map.listeners
           THEN DebouncedUpdate
           ELSE UNCHANGED <<timers, updateTimeout, nextTimer>>
        /\ lastOp' = [op |-> ev]
        /\ UNCHANGED <<attached, markers, clusters, clusterMarkerList,
                       individualMarkers, options, destroyed, pureVars,
                       ghostVars>>

\* The user clicks an aggregate marker that is on the map: its click listener
\* runs; the SDK then fits the viewport, and a zoom change is dispatched to
\* the zoom_changed listeners.
ClickCluster ==
    \E mk \in BagToSet(attached), z \in ViewZooms, pr \in ViewProjections :
        /\ mk.kind = "cluster"
        /\ nextTimer <= MaxTimers
        /\ lastOp' = [op |-> "click", target |-> mk, commands |-> ClickHandler(mk)]
        /\ map' = [map EXCEPT !.zoom = z, !.proj = pr]
        /\ IF z # map.zoom /\ "zoom_changed" \in map.listeners
           THEN DebouncedUpdate
           ELSE UNCHANGED <<timers, updateTimeout, nextTimer>>
        /\ UNCHANGED <<attached, markers, clusters, clusterMarkerList,
                       individualMarkers, options, destroyed, pureVars,
                       ghostVars>>

\* moveToMarker(contentId): setCenter and setZoom(15) when the id is found.
\* The clusterer never reads the map's centre, so setCenter is kept as the
\* command sent; setZoom changes the zoom the clusterer reads, and the SDK
\* dispatches zoom_changed when the zoom changes.
MoveToMarker ==
    \E contentId \in ContentIds :
      \E marker \in {findMarker(markers, contentId)} :
        /\ ~destroyed
        /\ lastOp' = [op |-> "moveToMarker", contentId |-> contentId,
                      commands |-> MoveCommands(marker),
                      before |-> map, points |-> markers]
        /\ IF marker # NullMarker
           THEN /\ map' = [map EXCEPT !.zoom = DetailZoom]
                /\ IF map.zoom # DetailZoom /\ "zoom_changed" \in map.listeners
                   THEN nextTimer <= MaxTimers /\ DebouncedUpdate
                   ELSE UNCHANGED <<timers, updateTimeout, nextTimer>>
           ELSE UNCHANGED <<map, timers, updateTimeout, nextTimer>>
        /\ UNCHANGED <<attached, markers, clusters, clusterMarkerList,
                       individualMarkers, options, destroyed, pureVars,
                       ghostVars>>

\* A pending timer expires: its callback runs update().
TimerFires ==
    \E t \in timers :
        /\ timers' = timers \ {t}
        /\ Becomes(UpdateOf(Self))
        /\ lastOp' = [op |-> "timer", id |-> t,
                      rendered |-> BagCardinality(attached)]
        /\ fired' = fired \cup {t}
        /\ UNCHANGED <<map, options, updateTimeout, destroyed, nextTimer,
                       destroyedPending, pureVars>>

\* destroy(): clearMarkers(), then clearTimeout(updateTimeout).
Destroy ==
    /\ ~destroyed
    /\ Becomes(ClearMarkersOf(Self))
    /\ timers' = PendingAfterDestroy(timers, updateTimeout)
    /\ destroyed' = TRUE
    /\ destroyedPending' = timers
    /\ lastOp' = [op |-> "destroy", rendered |-> BagCardinality(attached)]
    /\ UNCHANGED <<map, options, updateTimeout, nextTimer, fired, pureVars>>

Next ==
    \/ AddMarkers
    \/ ClearMarkers
    \/ Update
    \/ ViewportEvent
    \/ ClickCluster
    \/ MoveToMarker
    \/ TimerFires
    \/ Destroy

Spec == Init /\ [][Next]_vars

----------------------------------------------------------------------------
(* class MarkerClusterer: construction options and findMarker *)

\* A tour with the id of T2 at the place of T1.
T2Moved == [contentid |-> T2.contentid, mapx |-> T1.mapx, mapy |-> T1.mapy]

ApiLists == { <<T1>>, <<T3>>, <<T2, T2Moved>>, <<BadMapx>> }

\* Constructor arguments with the value 0 and with one option only.
ApiOptionSamples ==
    { NoOptions, [minDistance |-> 55, minZoom |-> 9],
      [minDistance |-> 0], [minZoom |-> 0], [minDistance |-> 0, minZoom |-> 0] }

InitApi == Constructed(ApiOptionSamples)

AddMarkersApi == AddMarkersFrom(ApiLists)

\* findMarker(contentId), called after the method lastOp names.
FindMarker ==
    \E contentId \in ContentIds :
        /\ ~destroyed
        /\ lastOp.op # "findMarker"
        /\ lastOp' = [op |-> "findMarker", contentId |-> contentId,
                      after |-> lastOp,
                      found |-> findMarker(markers, contentId)]
        /\ UNCHANGED <<map, attached, markers, clusters, clusterMarkerList,
                       individualMarkers, options, updateTimeout, destroyed,
                       timers, nextTimer, pureVars, ghostVars>>

NextApi ==
    \/ AddMarkersApi
    \/ ClearMarkers
    \/ FindMarker

SpecApi == InitApi /\ [][NextApi]_vars

----------------------------------------------------------------------------
(* naver-map-loader.ts: loadNaverMaps *)

MaxCallers == 3

Callers == 1..MaxCallers

\* The retries option of a call.
RetrySamples == {0, 1}

\* The doLoad() executions that are loading the script or waiting for the
\* SDK to initialise.
Trying(ls) == {d \in 1..Len(ls) : ls[d].phase \in {"script", "init"}}

SettledPhases == {"resolved", "rejected"}

\* A variant of loadNaverMaps without the `if (loadPromise)` test.
InvokeKind_noGuard(ready, promise) == IF ready THEN "ready" ELSE "start"

\* What a loadNaverMaps call does: return the SDK at once, return the
\* pending loadPromise, or start doLoad().
InvokeKind(ready, promise) ==
    IF ready THEN "ready" ELSE IF promise # 0 THEN "join" ELSE "start"

\* loadScript() as called by a new doLoad(): it resolves at once when the
\* element is there with dataset.loaded = "true" and otherwise waits for the
\* element's load or error event.
NewLoad(retries) ==
    [phase |-> IF script = "loaded" THEN "init" ELSE "script",
     retries |-> retries, on |-> 0, owns |-> FALSE]

\* loadScript() appends a new element only when none has the id.
ScriptAfterStart(el) == IF el = "absent" THEN "loading" ELSE el
AppendedAfterStart(el, n) == IF el = "absent" THEN n + 1 ELSE n

\* The state of one who awaits promise q of the loads ls.
Awaiting(ls, q) == IF ls[q].phase \in SettledPhases THEN ls[q].phase ELSE "awaiting"

RECURSIVE Adopters(_, _)
\* The promises that settle with the promises S: those of the doLoad()
\* executions whose retry call returned one of them.
Adopters(ls, S) ==
    IF \A d \in 1..Len(ls) : (ls[d].phase = "chained" /\ ls[d].on \in S) => d \in S
    THEN S
    ELSE Adopters(ls, S \cup {d \in 1..Len(ls) :
                                ls[d].phase = "chained" /\ ls[d].on \in S})

\* Some call that started one of the promises S runs its `finally` with
\* retries = 0: a caller, or the retry call of a doLoad().
Finalises(ls, cs, S) ==
    \/ \E c \in DOMAIN cs :
          /\ cs[c].state = "awaiting" /\ cs[c].on \in S
          /\ cs[c].owns /\ cs[c].retries = 0
    \/ \E d \in 1..Len(ls) :
          /\ ls[d].phase = "chained" /\ ls[d].on \in S
          /\ ls[d].owns /\ ls[d].retries - 1 = 0

SettledLoads(ls, S, outcome) ==
    [d \in 1..Len(ls) |-> IF d \in S THEN [ls[d] EXCEPT !.phase = outcome] ELSE ls[d]]

SettledCalls(cs, S, outcome) ==
    [c \in DOMAIN cs |->
        IF cs[c].state = "awaiting" /\ cs[c].on \in S
        THEN [cs[c] EXCEPT !.state = outcome]
        ELSE cs[c]]

\* The loader's promises as one value.
Promises == [loads |-> loads, calls |-> calls, loadPromise |-> loadPromise]

\* The promises S settle: the callers awaiting them continue, and a
\* `finally` with retries = 0 resets loadPromise.
Settle(st, S, outcome) ==
    [loads |-> SettledLoads(st.loads, S, outcome),
     calls |-> SettledCalls(st.calls, S, outcome),
     loadPromise |-> IF Finalises(st.loads, st.calls, S) THEN 0 ELSE st.loadPromise]

\* doLoad() d returns or throws: its promise settles, and with it every
\* promise that adopted it.
Finish(st, d, outcome) == Settle(st, Adopters(st.loads, {d}), outcome)

\* The catch block of doLoad() d: reset loadPromise, then wait a second to
\* retry, or rethrow.
Catch(st, d) ==
    IF st.loads[d].retries > 0
    THEN [st EXCEPT !.loads[d].phase = "sleep", !.loadPromise = 0]
    ELSE Finish([st EXCEPT !.loadPromise = 0], d, "rejected")

RECURSIVE CatchAll(_, _, _)
\* The error listeners of the script element run in the order they were
\* added: each doLoad() from the k-th on that waits for the element catches.
CatchAll(st, waiting, k) ==
    IF k > Len(st.loads) THEN st
    ELSE CatchAll(IF k \in waiting THEN Catch(st, k) ELSE st, waiting, k + 1)

\* The promises become st.
PromisesBecome(st) ==
    /\ loads' = st.loads
    /\ calls' = st.calls
    /\ loadPromise' = st.loadPromise

InitLoader ==
    /\ IdleNormalize /\ IdleData /\ IdleCluster /\ IdleClusterer /\ IdleHook
    /\ loadPromise = 0
    /\ script = "absent"
    /\ appended = 0
    /\ sdkReady = FALSE
    /\ loads = <<>>
    /\ calls = [c \in Callers |-> [state |-> "idle"]]

otherVars == <<normVars, dataVars, fnVars, clVars, hookVars>>

\* Caller c calls loadNaverMaps({retries}) and runs it up to its await.
CallLoad ==
    \E c \in Callers, retries \in RetrySamples,
       kind \in {InvokeKind(sdkReady, loadPromise)} :
        /\ calls[c].state = "idle"
        /\ CASE kind = "ready" ->
                  /\ calls' = [calls EXCEPT ![c] =
                        [state |-> "resolved", on |-> 0, owns |-> FALSE,
                         retries |-> retries, ready |-> sdkReady,
                         during |-> Trying(loads)]]
                  /\ UNCHANGED <<loadPromise, script, appended, loads>>
             [] kind = "join" ->
                  /\ calls' = [calls EXCEPT ![c] =
                        [state |-> Awaiting(loads, loadPromise),
                         on |-> loadPromise, owns |-> FALSE,
                         retries |-> retries, ready |-> sdkReady,
                         during |-> Trying(loads)]]
                  /\ UNCHANGED <<loadPromise, script, appended, loads>>
             [] kind = "start" ->
                  /\ loads' = Append(loads, NewLoad(retries))
                  /\ loadPromise' = Len(loads) + 1
                  /\ script' = ScriptAfterStart(script)
                  /\ appended' = AppendedAfterStart(script, appended)
                  /\ calls' = [calls EXCEPT ![c] =
                        [state |-> "awaiting", on |-> Len(loads) + 1,
                         owns |-> TRUE, retries |-> retries,
                         ready |-> sdkReady, during |-> Trying(loads)]]
        /\ UNCHANGED <<sdkReady, otherVars>>

\* The script element's load event: dataset.loaded = "true" and every
\* loadScript() waiting for it resolves.
ScriptLoads ==
    /\ script = "loading"
    /\ script' = "loaded"
    /\ loads' = [d \in 1..Len(loads) |->
                    IF loads[d].phase = "script"
                    THEN [loads[d] EXCEPT !.phase = "init"]
                    ELSE loads[d]]
    /\ UNCHANGED <<loadPromise, appended, sdkReady, calls, otherVars>>

\* The script element's error event: every loadScript() waiting for it
\* rejects.
ScriptFails ==
    /\ script = "loading"
    /\ script' = "failed"
    /\ PromisesBecome(CatchAll(Promises, {d \in 1..Len(loads) : loads[d].phase = "script"}, 1))
    /\ UNCHANGED <<appended, sdkReady, otherVars>>

\* The loaded script finishes defining window.naver.maps.
SdkInitialises ==
    /\ script = "loaded" /\ ~sdkReady
    /\ sdkReady' = TRUE
    /\ UNCHANGED <<loadPromise, script, appended, loads, calls, otherVars>>

\* waitForNaverMaps() finds the SDK initialised: doLoad() d returns it.
InitResolves ==
    \E d \in 1..Len(loads) :
        /\ loads[d].phase = "init" /\ sdkReady
        /\ PromisesBecome(Finish(Promises, d, "resolved"))
        /\ UNCHANGED <<script, appended, sdkReady, otherVars>>

\* waitForNaverMaps() or createTimeoutPromise() rejects: the catch block.
InitTimesOut ==
    \E d \in 1..Len(loads) :
        /\ loads[d].phase = "init"
        /\ PromisesBecome(Catch(Promises, d))
        /\ UNCHANGED <<script, appended, sdkReady, otherVars>>

\* The one-second wait of doLoad() d is over: it returns
\* loadNaverMaps({retries: retries - 1}).
Retry ==
    \E d \in 1..Len(loads), kind \in {InvokeKind(sdkReady, loadPromise)} :
        /\ loads[d].phase = "sleep"
        /\ CASE kind = "ready" ->
                  /\ PromisesBecome(Finish(Promises, d, "resolved"))
                  /\ UNCHANGED <<script, appended>>
             [] kind = "join" ->
                  /\ IF loads[loadPromise].phase \in SettledPhases
                     THEN PromisesBecome(Finish(Promises, d, loads[loadPromise].phase))
                     ELSE /\ loads' = [loads EXCEPT ![d] =
                                [phase |-> "chained", retries |-> loads[d].retries,
                                 on |-> loadPromise, owns |-> FALSE]]
                          /\ UNCHANGED <<loadPromise, calls>>
                  /\ UNCHANGED <<script, appended>>
             [] kind = "start" ->
                  /\ loads' = Append(
                        [loads EXCEPT ![d] =
                            [phase |-> "chained", retries |-> loads[d].retries,
                             on |-> Len(loads) + 1, owns |-> TRUE]],
                        NewLoad(loads[d].retries - 1))
                  /\ loadPromise' = Len(loads) + 1
                  /\ script' = ScriptAfterStart(script)
                  /\ appended' = AppendedAfterStart(script, appended)
                  /\ UNCHANGED calls
        /\ UNCHANGED <<sdkReady, otherVars>>

NextLoader ==
    \/ CallLoad
    \/ ScriptLoads
    \/ ScriptFails
    \/ SdkInitialises
    \/ InitResolves
    \/ InitTimesOut
    \/ Retry

SpecLoader == InitLoader /\ [][NextLoader]_vars

\* What the browser guarantees: a script element being fetched gets its load
\* or its error event, and the timers of waitForNaverMaps,
\* createTimeoutPromise and the retry delay expire. Nothing guarantees that
\* the SDK initialises or that anyone calls.
LoaderFairness ==
    /\ WF_vars(ScriptLoads \/ ScriptFails)
    /\ WF_vars(InitResolves \/ InitTimesOut)
    /\ WF_vars(Retry)

SpecLoaderLive == SpecLoader /\ LoaderFairness

----------------------------------------------------------------------------
(* components/NaverMap.tsx: useNaverMap and NaverMapComponent *)

MaxInits == 3

\* The values of the tours prop.
HookTourLists == { <<>>, <<T1>>, <<T2, NoMapx>> }

\* The hook h after clustererRef.current.destroy() and the reset of the ref.
DestroyClusterer(h) ==
    IF h.clustererRef # 0
    THEN [h EXCEPT !.clusterers[h.clustererRef].destroyed = TRUE,
                   !.clusterers[h.clustererRef].markers = <<>>,
                   !.clustererRef = 0]
    ELSE h

\* markersRef.current.forEach(marker => marker.setMap(null)); markersRef.current = []
DetachMarkers(h) == [h EXCEPT !.markersRef = <<>>]

\* mapRef.current = null: the hook lets go of its map; the map instance is
\* not destroyed.
DropMap(h) ==
    IF h.mapRef # 0
    THEN [h EXCEPT !.maps[h.mapRef].held = FALSE, !.mapRef = 0]
    ELSE h

\* The guard of initializeMap: `if (isInitializedRef.current) return`.
Starts(h) == ~h.isInitializedRef

\* initializeMap() up to `await loadNaverMaps()`.
InitializeMapOf(h) ==
    IF Starts(h)
    THEN [h EXCEPT !.isLoading = TRUE, !.error = FALSE,
                   !.runs = Append(@, [phase |-> "loading", retryCount |-> 0])]
    ELSE h

\* The rest of the try block of run i once the container is found: the map,
\* the clusterer, the refs and the state.
CreateMapOf(h, i) ==
    [h EXCEPT !.maps = Append(@, [held |-> TRUE]),
              !.mapRef = Len(h.maps) + 1,
              !.map = Len(h.maps) + 1,
              !.clusterers = Append(@, [map |-> Len(h.maps) + 1,
                                        destroyed |-> FALSE, markers |-> <<>>]),
              !.clustererRef = Len(h.clusterers) + 1,
              !.isInitializedRef = TRUE,
              !.isLoading = FALSE,
              !.runs[i].phase = "done"]

\* The catch block of run i.
FailOf(h, i) ==
    [h EXCEPT !.error = TRUE, !.isLoading = FALSE, !.isInitializedRef = FALSE,
              !.runs[i].phase = "failed"]

\* reinitialize()
ReinitializeOf(h) ==
    InitializeMapOf(
        [DropMap(DetachMarkers(DestroyClusterer(
            [h EXCEPT !.isInitializedRef = FALSE])))
         EXCEPT !.map = IF h.mapRef # 0 THEN 0 ELSE h.map])

\* The cleanup of the initialisation effect.
CleanupOf(h) ==
    [DropMap(DetachMarkers(DestroyClusterer(
        [h EXCEPT !.timer = FALSE, !.isInitializedRef = FALSE])))
     EXCEPT !.mounted = FALSE]

\* The hook's clearMarkers()
ClearMarkersHook(h) ==
    IF h.clustererRef # 0
    THEN [h EXCEPT !.clusterers[h.clustererRef].markers = <<>>]
    ELSE DetachMarkers(h)

\* The markers the non-clustering branch of addMarkers creates on map m.
IndividualMarkers(tours, m) ==
    [k \in 1..Len(createMarkerData(tours)) |->
        [map |-> m, point |-> createMarkerData(tours)[k]]]

\* The hook's addMarkers(tours)
AddMarkersHook(h, tours) ==
    IF h.mapRef = 0 THEN h
    ELSE IF h.clustererRef # 0
    THEN [h EXCEPT !.clusterers[h.clustererRef].markers = AppendMarkers(@, tours)]
    ELSE [h EXCEPT !.markersRef = @ \o IndividualMarkers(tours, h.mapRef)]

\* toursChanged in the tours effect: the lengths or the ids at some index
\* differ.
ToursChanged(prev, tours) ==
    \/ Len(prev) # Len(tours)
    \/ \E i \in 1..Len(prev) : prev[i].contentid # tours[i].contentid

\* The hook becomes h; React renders again and the tours effect is due when
\* one of its dependencies map and isLoading changed.
Rerender(h) ==
    /\ hook' = h
    /\ view' = [view EXCEPT !.effectDue =
                    @ \/ h.map # hook.map \/ h.isLoading # hook.isLoading]

\* The component after its first render: every effect has run once, the
\* 200 ms timer of the initialisation effect is pending.
InitHook ==
    /\ IdleNormalize /\ IdleData /\ IdleCluster /\ IdleClusterer /\ IdleLoader
    /\ hook = [map |-> 0, isLoading |-> TRUE, error |-> FALSE, mapRef |-> 0,
               clustererRef |-> 0, isInitializedRef |-> FALSE, timer |-> TRUE,
               mounted |-> TRUE, runs |-> <<>>, maps |-> <<>>,
               clusterers |-> <<>>, markersRef |-> <<>>]
    /\ \E tours \in HookTourLists :
          view = [tours |-> tours, prevToursRef |-> <<>>, effectDue |-> FALSE]

nonHookVars == <<normVars, dataVars, fnVars, clVars, loaderVars>>

\* The 200 ms timer of the initialisation effect fires: initializeMap().
InitTimerFires ==
    /\ hook.timer
    /\ Len(hook.runs) < MaxInits
    /\ Rerender(InitializeMapOf([hook EXCEPT !.timer = FALSE]))
    /\ UNCHANGED nonHookVars

\* loadNaverMaps() resolves for run i; the container is there, or the run
\* starts waiting for it (retryCount 1 stands for every count from 1 on).
LoadResolves ==
    \E i \in 1..Len(hook.runs), found \in BOOLEAN :
        /\ hook.runs[i].phase = "loading"
        /\ Rerender(IF found THEN CreateMapOf(hook, i)
                    ELSE [hook EXCEPT !.runs[i] =
                                [phase |-> "container", retryCount |-> 1]])
        /\ UNCHANGED nonHookVars

\* loadNaverMaps() rejects for run i.
LoadRejects ==
    \E i \in 1..Len(hook.runs) :
        /\ hook.runs[i].phase = "loading"
        /\ Rerender(FailOf(hook, i))
        /\ UNCHANGED nonHookVars

\* Run i finds the container in its retry loop.
ContainerFound ==
    \E i \in 1..Len(hook.runs) :
        /\ hook.runs[i].phase = "container"
        /\ Rerender(CreateMapOf(hook, i))
        /\ UNCHANGED nonHookVars

\* Run i gives up after 20 tries.
ContainerMissing ==
    \E i \in 1..Len(hook.runs) :
        /\ hook.runs[i].phase = "container"
        /\ Rerender(FailOf(hook, i))
        /\ UNCHANGED nonHookVars

Reinitialize ==
    /\ hook.mounted
    /\ Len(hook.runs) < MaxInits
    /\ Rerender(ReinitializeOf(hook))
    /\ UNCHANGED nonHookVars

\* The initialisation effect is cleaned up (unmount, or before it runs again).
Cleanup ==
    /\ hook.mounted
    /\ Rerender(CleanupOf(hook))
    /\ UNCHANGED nonHookVars

\* The effects run again for the same component instance: the
\* initialisation effect resets the flag and sets its timer.
Remount ==
    /\ ~hook.mounted
    /\ hook' = [hook EXCEPT !.isInitializedRef = FALSE, !.timer = TRUE,
                             !.mounted = TRUE]
    /\ view' = [view EXCEPT !.effectDue = TRUE]
    /\ UNCHANGED nonHookVars

\* The parent renders the component with another tours list.
SetTours ==
    \E tours \in HookTourLists \ {view.tours} :
        /\ hook.mounted
        /\ view' = [view EXCEPT !.tours = tours, !.effectDue = TRUE]
        /\ UNCHANGED <<hook, nonHookVars>>

\* The tours effect of NaverMapComponent.
ToursEffect ==
    /\ hook.mounted
    /\ view.effectDue
    /\ IF hook.map = 0 \/ hook.isLoading
       THEN /\ view' = [view EXCEPT !.effectDue = FALSE]
            /\ UNCHANGED hook
       ELSE IF ToursChanged(view.prevToursRef, view.tours)
       THEN /\ hook' = IF Len(view.tours) > 0
                       THEN AddMarkersHook(ClearMarkersHook(hook), view.tours)
                       ELSE ClearMarkersHook(hook)
            /\ view' = [view EXCEPT !.effectDue = FALSE,
                                    !.prevToursRef = view.tours]
       ELSE /\ view' = [view EXCEPT !.effectDue = FALSE]
            /\ UNCHANGED hook
    /\ UNCHANGED nonHookVars

NextHook ==
    \/ InitTimerFires
    \/ LoadResolves
    \/ LoadRejects
    \/ ContainerFound
    \/ ContainerMissing
    \/ Reinitialize
    \/ Cleanup
    \/ Remount
    \/ SetTours
    \/ ToursEffect

SpecHook == InitHook /\ [][NextHook]_vars


----------------------------------------------------------------------------
(* Properties of clusterMarkers, checked under SpecCluster *)

RECURSIVE Members(_, _)
\* The member lists of the first k clusters, concatenated.
Members(cs, k) == IF k = 0 THEN <<>> ELSE Members(cs, k - 1) \o cs[k].markers

ClusterCalled == cout # Pending
InMinDistance == OptionOr(cin.options, "minDistance", DefaultMinDistance)
InMinZoom == OptionOr(cin.options, "minZoom", DefaultMinZoom)
Grouping == cin.map.zoom >= InMinZoom
Projected == cin.map.proj.kind = "ok"

\* Squared pixel distance of two positions under the call's projection.
PixelSq(p, q) ==
    LET a == cin.map.proj.at[p]
        b == cin.map.proj.at[q]
    IN  (a.x - b.x) * (a.x - b.x) + (a.y - b.y) * (a.y - b.y)

\* Input points i and j are closer than minDistance for this call.
Near(i, j) ==
    DistanceBelow(
        getPixelDistance(cin.markers[i].position, cin.markers[j].position, cin.map),
        InMinDistance)

\* C1: the member lists of the returned clusters together hold every input
\* point exactly as often as the input list does: none lost, none duplicated.
C1_Partition ==
    ClusterCalled =>
        LET all == Members(cout.clusters, Len(cout.clusters))
        IN  /\ Len(all) = Len(cin.markers)
            /\ \A md \in SampleMarkers : Count(all, md) = Count(cin.markers, md)

C1_Witness ==
    /\ ClusterCalled /\ Grouping
    /\ Len(cin.markers) = 3
    /\ Cardinality(Range(cin.markers)) = 3
    /\ Len(cout.clusters) = 2

\* C2: below minZoom the result is one singleton cluster per input point, in
\* input order, positioned at the point; at zoom = minZoom points that are
\* within minDistance of each other are grouped.
C2_BelowMinZoomIdentity ==
    ClusterCalled =>
        /\ cin.map.zoom < InMinZoom =>
              /\ Len(cout.clusters) = Len(cin.markers)
              /\ \A i \in 1..Len(cin.markers) :
                    /\ cout.clusters[i].markers = <<cin.markers[i]>>
                    /\ cout.clusters[i].position = cin.markers[i].position
        /\ (cin.map.zoom = InMinZoom
              /\ \E i, j \in 1..Len(cin.markers) : i < j /\ Near(i, j))
              => Len(cout.clusters) < Len(cin.markers)

C2_Witness ==
    /\ ClusterCalled /\ cin.map.zoom < InMinZoom /\ Projected
    /\ Len(cin.markers) = 3
    /\ \A i, j \in 1..3 : Near(i, j)
    /\ Len(cout.clusters) = 3

\* C3: the merge test is strict: a candidate exactly minDistance pixels from
\* the seed is never in the seed's cluster, and of two input points less than
\* minDistance pixels apart the second joins the cluster seeded by the first.
C3_StrictThreshold ==
    (ClusterCalled /\ Grouping /\ Projected) =>
        /\ \A k \in 1..Len(cout.clusters) :
              LET c == cout.clusters[k].markers
              IN  \A n \in 2..Len(c) :
                    PixelSq(c[1].position, c[n].position)
                        < InMinDistance * InMinDistance
        /\ Len(cin.markers) = 2 =>
              LET sq == PixelSq(cin.markers[1].position, cin.markers[2].position)
              IN  /\ sq = InMinDistance * InMinDistance => Len(cout.clusters) = 2
                  /\ sq < InMinDistance * InMinDistance =>
                        /\ Len(cout.clusters) = 1
                        /\ cout.clusters[1].markers = cin.markers

C3_Witness ==
    /\ ClusterCalled /\ Grouping /\ Projected
    /\ Len(cin.markers) = 2
    /\ PixelSq(cin.markers[1].position, cin.markers[2].position)
          = InMinDistance * InMinDistance
    /\ Len(cout.clusters) = 2

\* Input index i opens a cluster: no earlier seed is within range of it.
RECURSIVE IsSeed(_)
IsSeed(i) == \A k \in 1..(i - 1) : ~(IsSeed(k) /\ Near(k, i))

\* The earliest seed within range of input index j (j itself for a seed).
SeedOf(j) ==
    CHOOSE i \in 1..j :
        /\ IsSeed(i) /\ (i = j \/ Near(i, j))
        /\ \A k \in 1..(i - 1) : ~(IsSeed(k) /\ Near(k, j))

RECURSIVE Ascending(_)
Ascending(S) ==
    IF S = {} THEN <<>>
    ELSE LET lo == CHOOSE x \in S : \A y \in S : x <= y
         IN  <<lo>> \o Ascending(S \ {lo})

\* The member lists the greedy single pass is specified to produce.
GreedyMembers ==
    LET seeds == Ascending({i \in 1..Len(cin.markers) : IsSeed(i)})
    IN  [k \in 1..Len(seeds) |->
            LET idx == Ascending({j \in 1..Len(cin.markers) : SeedOf(j) = seeds[k]})
            IN  [n \in 1..Len(idx) |-> cin.markers[idx[n]]]]

\* Three distinct points, two 10px apart and one 500px away, minDistance 60.
Scenario3 ==
    /\ Grouping /\ Projected /\ InMinDistance = DefaultMinDistance
    /\ Len(cin.markers) = 3
    /\ {cin.map.proj.at[cin.markers[i].position] : i \in 1..3}
          = {[x |-> 0, y |-> 0], [x |-> 10, y |-> 0], [x |-> 500, y |-> 0]}

\* C4: at zoom >= minZoom the member lists are those of the greedy single
\* pass (seeds in input order, a point joins the earliest seed it is within
\* range of, members in input order); the 3-point scenario gives one
\* 2-member cluster and one singleton.
C4_GreedySinglePass ==
    (ClusterCalled /\ Grouping) =>
        /\ [k \in 1..Len(cout.clusters) |-> cout.clusters[k].markers]
              = GreedyMembers
        /\ Scenario3 =>
              /\ Len(cout.clusters) = 2
              /\ {Len(cout.clusters[k].markers) : k \in 1..2} = {1, 2}

C4_Witness ==
    /\ ClusterCalled /\ Scenario3
    /\ Len(cout.clusters) = 2

\* C5: at zoom >= minZoom each cluster's position is the unweighted mean of
\* its members' positions: k times the position is the sum of the members'.
C5_Centroid ==
    (ClusterCalled /\ Grouping) =>
        \A c \in Range(cout.clusters) :
            LET k == Len(c.markers)
                sum == SumPositions(c.markers, k)
            IN  /\ k >= 1
                /\ RatMulInt(c.position.lat, k) = sum.lat
                /\ RatMulInt(c.position.lng, k) = sum.lng
                /\ c.position.lat.d > 0 /\ c.position.lng.d > 0

C5_Witness ==
    /\ ClusterCalled /\ Grouping
    /\ \E c \in Range(cout.clusters) :
          /\ Len(c.markers) = 3
          /\ Cardinality(Range(c.markers)) = 3
          /\ \A md \in Range(c.markers) : md.position # c.position

----------------------------------------------------------------------------
(* Properties of normalizeKatecCoordinates, checked under SpecNormalize *)

NormalizeCalled == nout # Pending

AllDigits(s) == s # "" /\ \A i \in 1..Len(Chars(s)) : Chars(s)[i] \in Digits

\* The value of an all-digit string.
IntOf(s) == DigitsValue(Chars(s), 1, Len(Chars(s)))

\* A fixed-point encoded coordinate: an integer literal at or above the
\* decimal threshold.
FixedPoint(s) == AllDigits(s) /\ IntOf(s) >= DecimalThreshold

\* C6: on fixed-point inputs lat = mapy / 10,000,000 and lng = mapx /
\* 10,000,000; ("1290000000", "350000000") gives (35, 129) and the decimal
\* input ("127.12", "36.45") gives (36.45, 127.12).
C6_FixedPointScaling ==
    NormalizeCalled =>
        /\ (FixedPoint(nin.mapx) /\ FixedPoint(nin.mapy)) =>
              /\ nout.ok
              /\ RatMulInt(nout.lat, KatecScale)
                    = RatOfInt(IntOf(nin.mapy))
              /\ RatMulInt(nout.lng, KatecScale)
                    = RatOfInt(IntOf(nin.mapx))
        /\ nin = [mapx |-> "1290000000", mapy |-> "350000000"] =>
              nout = Returned(RatOfInt(35), RatOfInt(129))
        /\ nin = [mapx |-> "127.12", mapy |-> "36.45"] =>
              nout = Returned(Rat(3645, 100), Rat(12712, 100))

C6_Witness ==
    /\ NormalizeCalled
    /\ nin = [mapx |-> "1290000000", mapy |-> "350000000"]
    /\ nout.ok

SmallMagnitude(v) == RatLessInt(RatAbs(RatOf(v)), DecimalThreshold)

\* C7: the values pass through unchanged exactly when both magnitudes are
\* below 1000; otherwise both are divided by 10,000,000.
C7_MagnitudeRule ==
    (NormalizeCalled /\ nout.ok) =>
        LET x == parseFloat(nin.mapx)
            y == parseFloat(nin.mapy)
        IN  IF SmallMagnitude(x) /\ SmallMagnitude(y)
            THEN nout.lat = RatOf(y) /\ nout.lng = RatOf(x)
            ELSE /\ nout.lat = RatDivInt(RatOf(y), KatecScale)
                 /\ nout.lng = RatDivInt(RatOf(x), KatecScale)

Unparsable(s) == s = "" \/ parseFloat(s).kind # "num"

\* C8: the call throws exactly when a coordinate string is empty or does not
\* parse (parseFloat) to a finite number; what it returns is a position of
\* two finite numbers.
C8_InvalidCoordinate ==
    NormalizeCalled =>
        /\ ~nout.ok <=> (Unparsable(nin.mapx) \/ Unparsable(nin.mapy))
        /\ ~nout.ok => nout = Thrown
        /\ nout.ok =>
              /\ DOMAIN nout.lat = {"n", "d"} /\ nout.lat.d > 0
              /\ DOMAIN nout.lng = {"n", "d"} /\ nout.lng.d > 0

C8_Witness ==
    /\ NormalizeCalled
    /\ nin = [mapx |-> "1290000000", mapy |-> "Infinity"]
    /\ nout = Thrown

----------------------------------------------------------------------------
(* Properties of createMarkerData, checked under SpecData *)

DataCalled == dout # Pending

\* The tour's coordinates are present and normalize without an error.
Normalizes(tour) ==
    /\ "mapx" \in DOMAIN tour /\ tour.mapx # ""
    /\ "mapy" \in DOMAIN tour /\ tour.mapy # ""
    /\ normalizeKatecCoordinates(tour.mapx, tour.mapy).ok

\* C9: the result holds, in input order, one point for each tour whose
\* coordinates normalize and nothing for the others, wherever the bad
\* records are in the list.
C9_SkipMalformed ==
    DataCalled =>
        LET good == SelectSeq(din, Normalizes)
        IN  /\ Len(dout.markers) = Len(good)
            /\ \A i \in 1..Len(good) :
                  LET r == normalizeKatecCoordinates(good[i].mapx, good[i].mapy)
                  IN  /\ dout.markers[i].tour = good[i]
                      /\ dout.markers[i].position = [lat |-> r.lat, lng |-> r.lng]

C9_Witness ==
    /\ DataCalled
    /\ Len(din) = 3
    /\ din[1] = BadMapx /\ din[2] = T2 /\ din[3] = InfMapy
    /\ Len(dout.markers) = 1
    /\ dout.markers[1].tour = T2

----------------------------------------------------------------------------
(* Properties of class MarkerClusterer, checked under Spec *)

\* The point createMarkerData makes of a tour whose coordinates normalize.
PointOf(tour) ==
    LET r == normalizeKatecCoordinates(tour.mapx, tour.mapy)
    IN  [tour |-> tour, position |-> [lat |-> r.lat, lng |-> r.lng]]

RECURSIVE ValidPoints(_, _)
\* The points of the first k tours whose coordinates normalize, in order.
ValidPoints(tours, k) ==
    IF k = 0 THEN <<>>
    ELSE IF Normalizes(tours[k])
         THEN Append(ValidPoints(tours, k - 1), PointOf(tours[k]))
         ELSE ValidPoints(tours, k - 1)

\* Cluster c is on the map as the marker mk that update() makes for it.
RenderedAs(c, mk) ==
    IF Len(c.markers) > 1
    THEN /\ mk.kind = "cluster"
         /\ mk.position = c.position
         /\ mk.count = Len(c.markers)
    ELSE /\ mk.kind = "marker"
         /\ mk.position = c.markers[1].position

\* The rendered markers in creation order of their kind, for clusters cs.
RenderedInOrder(cs) ==
    /\ Len(clusterMarkerList) + Len(individualMarkers) = Len(cs)
    /\ \A k \in 1..Len(cs) :
          LET big == Cardinality({i \in 1..k : Len(cs[i].markers) > 1})
          IN  IF Len(cs[k].markers) > 1
              THEN RenderedAs(cs[k], clusterMarkerList[big])
              ELSE RenderedAs(cs[k], individualMarkers[k - big])

\* C10: after addMarkers(tours) the managed points are the points held
\* before followed by the valid points of tours in order; the stored clusters
\* are a clustering of all of them at the current viewport, and exactly the
\* markers rendered for these clusters are on the map.
C10_AddMarkersAppends ==
    lastOp.op = "addMarkers" =>
        /\ markers = lastOp.before \o ValidPoints(lastOp.tours, Len(lastOp.tours))
        /\ clusters = clusterMarkers(markers, map, options)
        /\ LET all == Members(clusters, Len(clusters))
           IN  /\ Len(all) = Len(markers)
               /\ \A md \in Range(markers) : Count(all, md) = Count(markers, md)
        /\ RenderedInOrder(clusters)
        /\ attached = SeqToBag(clusterMarkerList) (+) SeqToBag(individualMarkers)

C10_Witness ==
    /\ lastOp.op = "addMarkers"
    /\ lastOp.tours = <<BadMapx, T1>>
    /\ Len(lastOp.before) = 2
    /\ Len(markers) = 3
    /\ Len(clusters) = 1
    /\ clusters[1].markers = lastOp.before \o <<PointOf(T1)>>
    /\ Len(clusterMarkerList) = 1
    /\ BagCardinality(attached) = 1

\* The markers on the map are the ones in the clusterer's two lists.
OnMapAsListed ==
    attached = SeqToBag(clusterMarkerList) (+) SeqToBag(individualMarkers)

Released(st) ==
    /\ st.attached = EmptyBag
    /\ st.markers = <<>>
    /\ st.clusters = <<>>
    /\ st.clusterMarkerList = <<>>
    /\ st.individualMarkers = <<>>

\* C11: clearMarkers(), called in any state, detaches every rendered marker
\* and empties the managed points, the clusters and both marker lists; a
\* second call, or a call on an empty clusterer, leaves that empty state.
C11_ClearMarkers ==
    /\ Released(ClearMarkersOf(Self))
    /\ ClearMarkersOf(ClearMarkersOf(Self)) = ClearMarkersOf(Self)
    /\ lastOp.op = "clearMarkers" => Released(Self)

C11_Witness ==
    /\ lastOp.op = "clearMarkers"
    /\ lastOp.rendered = 2
    /\ Released(Self)

UpdateRan == lastOp.op \in {"update", "timer"}

\* C12: after update() the markers on the map are exactly the ones created
\* for the latest clustering pass (none of an earlier pass is left), and a
\* further update() with the same points and viewport changes nothing.
C12_UpdateIdempotent ==
    UpdateRan =>
        /\ OnMapAsListed
        /\ BagCardinality(attached) = Len(clusters)
        /\ markers # <<>> => clusters = clusterMarkers(markers, map, options)
        /\ UpdateOf(Self) = Self

C12_Witness ==
    /\ UpdateRan
    /\ lastOp.rendered = 2
    /\ BagCardinality(attached) = 1
    /\ Len(markers) = 2

\* The clusters of cs with at least two members.
Aggregates(cs) == {k \in 1..Len(cs) : Len(cs[k].markers) >= 2}
Singletons(cs) == {k \in 1..Len(cs) : Len(cs[k].markers) = 1}

\* C13: after update() on a non-empty set every cluster has exactly one
\* marker: an aggregate marker at the centroid showing the member count for
\* two or more members, a plain marker at the point for one member.
C13_RenderPerCluster ==
    (lastOp.op \in {"update", "timer", "addMarkers"} /\ markers # <<>>) =>
        /\ Len(clusterMarkerList) = Cardinality(Aggregates(clusters))
        /\ Len(individualMarkers) = Cardinality(Singletons(clusters))
        /\ \A mk \in Range(clusterMarkerList) : mk.kind = "cluster"
        /\ \A mk \in Range(individualMarkers) : mk.kind = "marker"
        /\ \A k \in Aggregates(clusters) :
              \E i \in 1..Len(clusterMarkerList) :
                  /\ clusterMarkerList[i].position = getClusterCenter(clusters[k].markers)
                  /\ clusterMarkerList[i].count = Len(clusters[k].markers)
                  /\ clusterMarkerList[i].members = clusters[k].markers
        /\ \A k \in Singletons(clusters) :
              \E i \in 1..Len(individualMarkers) :
                  individualMarkers[i].position = clusters[k].markers[1].position
        /\ OnMapAsListed

C13_Witness ==
    /\ lastOp.op = "update"
    /\ Len(markers) = 3
    /\ Len(clusters) = 2
    /\ Len(clusterMarkerList) = 1
    /\ clusterMarkerList[1].count = 2
    /\ Len(individualMarkers) = 1

Clicked == lastOp.op = "click"

\* The box b holds the positions of ms and touches one of them on each side.
SmallestBox(b, ms) ==
    /\ \A i \in 1..Len(ms) :
          /\ ~RatLess(ms[i].position.lat, b.sw.lat)
          /\ ~RatLess(b.ne.lat, ms[i].position.lat)
          /\ ~RatLess(ms[i].position.lng, b.sw.lng)
          /\ ~RatLess(b.ne.lng, ms[i].position.lng)
    /\ \E i \in 1..Len(ms) : ms[i].position.lat = b.sw.lat
    /\ \E i \in 1..Len(ms) : ms[i].position.lat = b.ne.lat
    /\ \E i \in 1..Len(ms) : ms[i].position.lng = b.sw.lng
    /\ \E i \in 1..Len(ms) : ms[i].position.lng = b.ne.lng

\* C14: a click on an aggregate marker sends the map exactly one fitBounds
\* command; its box is the smallest one holding the positions of all members
\* of the cluster and its padding is 50 pixels on each of the four sides.
C14_ClickFitsBounds ==
    Clicked =>
        /\ Len(lastOp.commands) = 1
        /\ lastOp.commands[1].cmd = "fitBounds"
        /\ SmallestBox(lastOp.commands[1].bounds, lastOp.target.members)
        /\ lastOp.commands[1].padding
              = [top |-> 50, right |-> 50, bottom |-> 50, left |-> 50]

C14_Witness ==
    /\ Clicked
    /\ lastOp.target.count = 3
    /\ Cardinality(Range(lastOp.target.members)) = 3
    /\ lastOp.commands[1].bounds.sw # lastOp.commands[1].bounds.ne
    /\ lastOp.commands[1].bounds.sw # lastOp.target.members[1].position

TimerRan == lastOp.op = "timer"

\* The handles clearTimeout cancelled while they were pending.
Cancelled == (1..(nextTimer - 1)) \ (timers \cup fired)

\* C15: the only timer that can be pending is the one of the latest viewport
\* event, so the timers of the earlier events of a burst never run update();
\* the timer of the last event runs update() once, against the viewport as
\* it is when it fires.
C15_Debounced ==
    /\ timers \subseteq {updateTimeout}
    /\ TimerRan =>
          /\ lastOp.id = updateTimeout
          /\ timers = {}
          /\ markers # <<>> => clusters = clusterMarkers(markers, map, options)
          /\ OnMapAsListed /\ BagCardinality(attached) = Len(clusters)

C15_Witness ==
    /\ TimerRan
    /\ lastOp.id = 3
    /\ fired = {3}
    /\ Cancelled = {1, 2}
    /\ Len(markers) = 2
    /\ lastOp.rendered = 2
    /\ Len(clusterMarkerList) = 1

\* C16: a timer that was pending when destroy() was called is cancelled and
\* its callback never runs; the points, the clusters and both marker lists
\* are empty and no marker is left on the map.
C16_DestroyCancels ==
    destroyed =>
        /\ destroyedPending \cap (timers \cup fired) = {}
        /\ Released(Self)

C16_Witness ==
    /\ lastOp.op = "destroy"
    /\ destroyedPending # {}
    /\ lastOp.rendered >= 1
    /\ timers = {}

\* C17: after destroy() a zoom_changed or dragend event does not reach the
\* clusterer: no timer is scheduled and update() is not called.
C17_ListenersReleased ==
    destroyed =>
        /\ timers \subseteq destroyedPending
        /\ TimerRan => lastOp.id \in destroyedPending

----------------------------------------------------------------------------
(* Projection fallback of clusterMarkers, checked under SpecCluster *)

\* (|lat1 - lat2| + |lng1 - lng2|) * 100000 < minDistance, as a comparison
\* of the degree difference with minDistance / 100000.
FallbackNear(md1, md2) ==
    RatLess(RatAdd(RatAbs(RatSub(md1.position.lat, md2.position.lat)),
                   RatAbs(RatSub(md1.position.lng, md2.position.lng))),
            Rat(InMinDistance, 100000))

----------------------------------------------------------------------------
(* moveToMarker, checked under Spec *)

Moved == lastOp.op = "moveToMarker"

\* Some managed point belongs to the tour with this id.
Managed(contentId) ==
    \E i \in 1..Len(markers) : markers[i].tour.contentid = contentId

\* C20: moveToMarker(id) with the id of a managed point sets the map's
\* centre to that point's position and the zoom to 15; with any other id it
\* sends the map nothing and leaves the viewport as it was; it never changes
\* the managed points.
C20_MoveToMarker ==
    Moved =>
        /\ markers = lastOp.points
        /\ IF Managed(lastOp.contentId)
           THEN /\ Len(lastOp.commands) = 2
                /\ lastOp.commands[1].cmd = "setCenter"
                /\ \E i \in 1..Len(markers) :
                      /\ markers[i].tour.contentid = lastOp.contentId
                      /\ lastOp.commands[1].position = markers[i].position
                /\ lastOp.commands[2] = [cmd |-> "setZoom", zoom |-> 15]
                /\ map.zoom = 15
           ELSE /\ lastOp.commands = <<>>
                /\ map = lastOp.before

C20_Witness ==
    /\ Moved
    /\ lastOp.contentId = T2.contentid
    /\ Len(markers) = 3
    /\ markers[2].tour = T2
    /\ lastOp.before.zoom # 15
    /\ map.zoom = 15
    /\ lastOp.commands[1].position = PointOf(T2).position

----------------------------------------------------------------------------
(* Single flight of loadNaverMaps, checked under SpecLoader *)

\* The callers that called loadNaverMaps while a load attempt was running.
Overlapping == {c \in Callers : calls[c].state # "idle" /\ calls[c].during # {}}

\* Caller c was handed the promise of the attempt it found running.
Joined(c) == ~calls[c].owns /\ calls[c].on \in calls[c].during

\* C18 as stated: while one SDK load is in flight, every concurrent caller
\* awaits that same load; at most one load attempt runs at a time and the
\* script element is appended at most once.
C18_AllAwaitTheLoad ==
    /\ Cardinality(Trying(loads)) <= 1
    /\ appended <= 1
    /\ \A c \in Overlapping : Joined(c)

\* C18, amended: at most one load attempt runs at a time, and it is the one
\* loadPromise refers to; the script element is appended at most once; a
\* caller that arrives during an attempt starts none: it awaits that
\* attempt's promise, unless the SDK is initialised already (the attempt has
\* not yet polled it), and then it returns the SDK at once.
C18_SingleFlight ==
    /\ \A d \in Trying(loads) : loadPromise = d
    /\ Cardinality(Trying(loads)) <= 1
    /\ appended <= 1
    /\ \A c \in Overlapping :
          IF calls[c].ready
          THEN calls[c].state = "resolved" /\ calls[c].on = 0 /\ ~calls[c].owns
          ELSE Joined(c)

C18_Witness ==
    /\ appended = 1
    /\ \E d \in Trying(loads) :
          /\ calls[1].state = "awaiting" /\ calls[1].on = d /\ calls[1].owns
          /\ calls[2].state = "awaiting" /\ Joined(2) /\ calls[2].during = {d}
          /\ calls[3].state = "resolved" /\ calls[3].ready /\ calls[3].during = {d}

----------------------------------------------------------------------------
(* findMarker and the constructor's options, checked under SpecApi *)

Found == lastOp.op = "findMarker"

\* The positions in the managed list of the points of the tour with this id.
Matches(contentId) ==
    {i \in 1..Len(markers) : markers[i].tour.contentid = contentId}

\* C21: findMarker(id) returns the first point in managed order whose tour
\* id is id when there is one, and null exactly when no managed point has
\* that id; after clearMarkers() it returns null for every id.
C21_FindMarker ==
    Found =>
        /\ IF Matches(lastOp.contentId) # {}
           THEN \E i \in Matches(lastOp.contentId) :
                    /\ lastOp.found = markers[i]
                    /\ \A j \in Matches(lastOp.contentId) : i <= j
           ELSE lastOp.found = NullMarker
        /\ lastOp.after.op = "clearMarkers" => lastOp.found = NullMarker

C21_Witness ==
    /\ Found
    /\ Cardinality(Matches(lastOp.contentId)) = 2
    /\ Len(markers) = 3
    /\ markers[2] # markers[3]
    /\ lastOp.found = markers[2]

----------------------------------------------------------------------------
(* The debounce timer, checked under Spec *)

\* The handle the latest window.setTimeout call returned.
LatestTimer == nextTimer - 1

\* C22: at most one debounce timer is pending at any time, and it is the one
\* scheduled last: a viewport event that arrives while a timer is pending
\* cancels that timer before it schedules its own, so no two update() calls
\* are queued.
C22_OnePending ==
    /\ Cardinality(timers) <= 1
    /\ timers \subseteq {LatestTimer}
    /\ (lastOp.op \in ViewportEvents /\ ~destroyed) => timers = {LatestTimer}

C22_Witness ==
    /\ lastOp.op = "dragend"
    /\ ~destroyed
    /\ nextTimer = 3
    /\ fired = {}
    /\ timers = {2}
    /\ Cancelled = {1}

----------------------------------------------------------------------------
(* Order dependence of clusterMarkers, checked under SpecReorder *)

\* The member lists of the clusters cs, in order.
MemberLists(cs) == [k \in 1..Len(cs) |-> cs[k].markers]

\* The input is a chain A, B, C: A-B and B-C closer than minDistance, A-C not.
Chain == Grouping /\ Near(1, 2) /\ Near(2, 3) /\ ~Near(1, 3)

\* C23: the result depends on the input order: for points A, B, C with
\* d(A,B) < minDistance, d(B,C) < minDistance and d(A,C) >= minDistance the
\* order A,B,C gives the clusters (A,B) and (C), and the order B,A,C of the
\* same points, at the same zoom, projection and minDistance, gives the one
\* cluster (B,A,C).
C23_OrderDependent ==
    (ClusterCalled /\ Chain) =>
        /\ MemberLists(cout.clusters)
              = << <<cin.markers[1], cin.markers[2]>>, <<cin.markers[3]>> >>
        /\ MemberLists(cout.exchanged)
              = << <<cin.markers[2], cin.markers[1], cin.markers[3]>> >>

C23_Witness ==
    /\ ClusterCalled /\ Chain /\ Projected
    /\ Len(cout.clusters) = 2
    /\ Len(cout.exchanged) = 1
    /\ PixelSq(cin.markers[1].position, cin.markers[3].position) = 3600

----------------------------------------------------------------------------
(* Spacing of the clusters, checked under SpecCluster *)

\* Points md1 and md2 are closer than k pixels, by the distance
\* clusterMarkers measures under the call's map.
Closer(md1, md2, k) ==
    DistanceBelow(getPixelDistance(md1.position, md2.position, cin.map), k)

\* The first member of the k-th returned cluster.
Seed(k) == cout.clusters[k].markers[1]

\* C25: at zoom >= minZoom the seeds of two distinct clusters are at least
\* minDistance apart, every other member of a cluster is closer than
\* minDistance to its seed, and two members of one cluster are closer than
\* 2 * minDistance to each other (they may be minDistance or more apart).
C25_Spacing ==
    (ClusterCalled /\ Grouping) =>
        /\ \A k, l \in 1..Len(cout.clusters) :
              k # l => ~Closer(Seed(k), Seed(l), InMinDistance)
        /\ \A k \in 1..Len(cout.clusters) :
              LET c == cout.clusters[k].markers
              IN  /\ \A n \in 2..Len(c) : Closer(Seed(k), c[n], InMinDistance)
                  /\ \A n, o \in 2..Len(c) : Closer(c[n], c[o], 2 * InMinDistance)

C25_Witness ==
    /\ ClusterCalled /\ Grouping /\ Projected
    /\ Len(cout.clusters) = 1
    /\ Len(cout.clusters[1].markers) = 3
    /\ ~Closer(cout.clusters[1].markers[2], cout.clusters[1].markers[3],
               InMinDistance)

----------------------------------------------------------------------------
(* Stored clusters and managed points, checked under Spec *)

\* The points of all stored clusters, cluster by cluster.
ClusteredPoints == Members(clusters, Len(clusters))

\* C26: in every reachable state the stored clusters partition the managed
\* points: the clusters' member lists together hold each managed point as
\* often as the managed list does, and nothing else.
C26_ClustersPartitionManaged ==
    /\ Len(ClusteredPoints) = Len(markers)
    /\ SeqToBag(ClusteredPoints) = SeqToBag(markers)
    /\ \A k \in 1..Len(clusters) : Len(clusters[k].markers) >= 1

C26_Witness ==
    /\ TimerRan
    /\ Cancelled # {}
    /\ Len(markers) = 3
    /\ Len(clusters) = 2
    /\ Cardinality(Range(markers)) = 3

\* C27: whenever the managed list is empty no marker of the clusterer is on
\* the map; an update() run by a timer after clearMarkers() or destroy()
\* creates none.
C27_EmptyMeansNoMarkers ==
    markers = <<>> =>
        /\ attached = EmptyBag
        /\ clusterMarkerList = <<>>
        /\ individualMarkers = <<>>

C27_Witness ==
    /\ TimerRan
    /\ destroyed
    /\ destroyedPending # {}
    /\ lastOp.id \notin destroyedPending
    /\ markers = <<>>
    /\ attached = EmptyBag

----------------------------------------------------------------------------
(* The constructor's options, checked under SpecApi *)

JustConstructed == lastOp.op = "constructor"

\* C28: a clusterer constructed with explicit options uses exactly those
\* values, 0 included, and the defaults 60 and 10 only for an option that
\* was not supplied: it groups any points as clusterMarkers does with the
\* supplied options.
C28_ExplicitOptions ==
    JustConstructed =>
        /\ options.minDistance
              = OptionOr(lastOp.options, "minDistance", DefaultMinDistance)
        /\ options.minZoom = OptionOr(lastOp.options, "minZoom", DefaultMinZoom)
        /\ \A tours \in ApiLists \cup {<<T1, T3>>} :
              clusterMarkers(createMarkerData(tours), map, options)
                  = clusterMarkers(createMarkerData(tours), map, lastOp.options)

----------------------------------------------------------------------------
(* Termination of loadNaverMaps, checked under SpecLoaderLive *)

\* C24: every call of loadNaverMaps eventually settles: a caller that is
\* awaiting the load is eventually resolved or rejected, also when it called
\* after an earlier script load had failed.
C24_EveryCallSettles ==
    \A c \in Callers :
        (calls[c].state = "awaiting") ~> (calls[c].state \in SettledPhases)

----------------------------------------------------------------------------
(* The map component, checked under SpecHook *)

\* The map is ready (the map state is the hook's current map instance, not
\* loading) and the tours effect has run for the latest list.
Settled ==
    /\ hook.mounted
    /\ hook.map # 0 /\ ~hook.isLoading
    /\ hook.mapRef = hook.map
    /\ ~view.effectDue

RECURSIVE ShownBy(_, _, _)
\* The points the first k clusterers show on map m.
ShownBy(cs, m, k) ==
    IF k = 0 THEN <<>>
    ELSE ShownBy(cs, m, k - 1)
            \o (IF cs[k].map = m /\ ~cs[k].destroyed THEN cs[k].markers ELSE <<>>)

\* The points shown on map m: those of its clusterers and the individual
\* markers on it.
ShownOn(m) ==
    SeqToBag(ShownBy(hook.clusterers, m, Len(hook.clusterers)))
        (+) SeqToBag([k \in {j \in DOMAIN hook.markersRef : hook.markersRef[j].map = m}
                        |-> hook.markersRef[k].point])

\* C29: whenever the map is ready and the tours effect has run for the
\* latest tours list, the points shown on the current map are exactly the
\* valid points of that list, also after the map was torn down and created
\* again.
C29_LatestToursShown ==
    Settled => ShownOn(hook.map) = SeqToBag(createMarkerData(view.tours))

\* The map instances the hook created and has not let go of.
HeldMaps == {m \in 1..Len(hook.maps) : hook.maps[m].held}

\* The clusterers that were created and not destroyed.
LiveClusterers == {c \in 1..Len(hook.clusterers) : ~hook.clusterers[c].destroyed}

\* C30: overlapping initialisations leave at most one live map and at most
\* one live clusterer, the ones the refs hold; a run that was awaiting the
\* SDK or the container when cleanup ran or when another run started creates
\* no second map and no clusterer that is never destroyed.
C30_OneLiveMap ==
    /\ Cardinality(HeldMaps) <= 1
    /\ Cardinality(LiveClusterers) <= 1
    /\ \A m \in HeldMaps : hook.mapRef = m
    /\ \A c \in LiveClusterers : hook.clustererRef = c

====
